---- MODULE Spec2Model ----
(***************************************************************************)
(* Authenticated API client of front-files: the credential store           *)
(* (utils/storage.js), the axios instance with its request and response    *)
(* interceptors (api/axios.js: isRefreshing, failedQueue, processQueue)    *)
(* and the AuthProvider callers login and logout (contexts/AuthContext.js).*)
(*                                                                         *)
(* JavaScript runs each network callback to completion together with the   *)
(* promise continuations (microtasks) it schedules, so one action is one   *)
(* network event (or one call from the application) with everything that   *)
(* runs before the next network event can be delivered.                    *)
(***************************************************************************)
EXTENDS Integers, Sequences, FiniteSets, TLC

\* ---------------------------------------------------------------- bounds
NumReq == 3        \* requests made through the client, numbered in the order they are made
NumTokens == 2     \* access tokens the server issues, each one new: 1..NumTokens
MaxTime == 2       \* clock values 1..MaxTime, in hours

MaxClock == 4      \* rate-limiter clock values 0..MaxClock, in units of 5 minutes
MaxRecords == 3    \* recordAttempt calls per key that a window can still hold
MaxM == 2          \* maxAttempts arguments 1..MaxM
MaxWindow == 3     \* windowMs arguments 1..MaxWindow, in units of 5 minutes
MaxDate == 9       \* session-monitor clock values 1..MaxDate, in units of 5 minutes
MaxLen == 4        \* length of the strings handed to sanitizeInput
MaxSanitize == 2   \* times sanitizeInput is applied in a row

\* ------------------------------------------------------------- constants
Absent == 0        \* localStorage.getItem of a missing key (null), a missing body field (undefined)
Hour == 1          \* expiry.setHours(expiry.getHours() + 1)
DefaultExpiresIn == 1   \* expiresIn = 3600 seconds, in hours

DefaultMaxAttempts == 5   \* isBlocked: maxAttempts = 5
DefaultWindowMs == 3      \* isBlocked, getRemainingTime: windowMs = 15 * 60 * 1000, in units of 5 minutes

MaxIdleTime == 6          \* MAX_IDLE_TIME: 30 * 60 * 1000, in units of 5 minutes
TimeoutWarning == 1       \* TIMEOUT_WARNING: 5 * 60 * 1000, in units of 5 minutes

Reqs == 1..NumReq
Tokens == 1..NumTokens
RefreshTokens == {1}
ExpiresIn == {DefaultExpiresIn, DefaultExpiresIn + 1}

VARIABLES
  store,         \* localStorage: access_token, refresh_token, user_data, session_expiry
  now,           \* new Date()
  isRefreshing,  \* axios.js module flag
  failedQueue,   \* axios.js module queue: requests waiting on the refresh, in push order
  req,           \* per request: its config (retry flag, Authorization header) and its promise
  refreshCall,   \* refresh POSTs in flight
  issued,        \* server: the last access token it issued
  refreshedFor,  \* history: the access tokens whose 401 has started a refresh POST
  logoutPc,      \* AuthProvider.logout: "idle", "awaiting" its POST, "done"
  effects,       \* what the step just taken did: refresh POSTs made, redirects to
                 \* /login signalled, the refresh call it completed
  clock,         \* Date.now() of the rate limiter and of the login page
  attempts,      \* rateLimiter.attempts: per key, the timestamps kept, in push order
  recorded,      \* history: per key, every timestamp recordAttempt pushed that can still
                 \* be inside a window (younger than MaxWindow)
  call,          \* the rate-limiter call (or login-page handler) the step just taken
                 \* made, with its arguments and what it returned
  page,          \* LoginPage: its state isBlocked, remainingTime and its login call in flight
  dateNow,       \* Date.now() of the session monitor
  lastActivity,  \* localStorage 'lastActivity'
  monitor,       \* the monitoring initSessionMonitoring started: its listeners, its interval
  provider,      \* SecurityProvider: isAuthenticated, the logout its expiry handler scheduled
  fired,         \* what the step just taken did: the callbacks a periodic check invoked
  input,         \* the string handed to security.sanitizeInput
  outputs,       \* what sanitizeInput returned for it, and for what it returned
  screened       \* what isSecure and detectThreats returned for the input

authVars == <<store, now, isRefreshing, failedQueue, req, refreshCall, issued, refreshedFor,
              logoutPc, effects>>

rateVars == <<clock, attempts, recorded, call, page>>

monitorVars == <<dateNow, lastActivity, monitor, provider, fired>>

sanitizeVars == <<input, outputs, screened>>

\* what the API client leaves alone
otherVars == <<rateVars, monitorVars, sanitizeVars>>

\* what the rate limiter and the login page leave alone
notRateVars == <<authVars, monitorVars, sanitizeVars>>

\* what the session monitor leaves alone
notMonitorVars == <<authVars, rateVars, sanitizeVars>>

\* what sanitizeInput leaves alone
notSanitizeVars == <<authVars, rateVars, monitorVars>>

vars == <<authVars, rateVars, monitorVars, sanitizeVars>>

\* ------------------------------------------------------- credential store
EmptyStore == [access |-> Absent, refresh |-> Absent, user |-> Absent, expiry |-> Absent]

\* mutant: clearAuth without the removeItem of refresh_token
clearAuth_KeepsRefreshToken(s) ==
  [access |-> Absent, refresh |-> s.refresh, user |-> Absent, expiry |-> Absent]

clearAuth(s) == EmptyStore

setAccessToken(s, token) == [s EXCEPT !.access = token]

setRefreshToken(s, token) == [s EXCEPT !.refresh = token]

setUserData(s, u) == [s EXCEPT !.user = u]

setSessionExpiry(s, e) == [s EXCEPT !.expiry = e]

isSessionExpired(s, t) == IF s.expiry = Absent THEN TRUE ELSE t > s.expiry

\* ------------------------------------------------------------- requests
NoHeader == <<>>
Bearer(token) == <<token>>

\* errors: what failed (a status, the transport, the refresh POST) and for which request
NoErr == [kind |-> "none", of |-> 0]
Http401(r) == [kind |-> "http401", of |-> r]
HttpError(r) == [kind |-> "httpError", of |-> r]
\* the error axios rejects with when request r got no response
TransportError(r) == [kind |-> "transportError", of |-> r]
WrappedNetworkError(r) == [kind |-> "Error('Network error')", of |-> r]
RefreshError(c) == [kind |-> "refreshError", of |-> c.trigger]

\* st: "new", "sent" (on the wire), "queued" (in failedQueue), "waitRefresh" (the
\* trigger, awaiting the refresh POST), "resolved", "rejected" (the caller's promise)
\* kind: the caller, "api" (any protected call), "login" or "logout"
NewReq == [kind |-> "api", st |-> "new", retry |-> FALSE, hdr |-> NoHeader, sends |-> 0, resp |-> "none",
           err |-> NoErr, enq |-> 0]

NoRefresh == [trigger |-> 0, result |-> "none", token |-> Absent, queued |-> <<>>,
              replayed |-> <<>>]
NoEffects == [posts |-> 0, redirects |-> 0, refresh |-> NoRefresh]

Settled(rq, r) == rq[r].st \in {"resolved", "rejected"}

\* request interceptor: attach the stored token when it is there and not expired
requestInterceptor(hdr, s, t) ==
  IF s.access # Absent /\ ~isSessionExpired(s, t) THEN Bearer(s.access) ELSE hdr

\* axiosInstance(config): run the request interceptor, put the request on the wire
send(rec, s, t) ==
  [rec EXCEPT !.st = "sent", !.hdr = requestInterceptor(rec.hdr, s, t), !.sends = @ + 1]

\* the caller's promise is settled; the request's config is dropped with it
reject(rec, error) ==
  [NewReq EXCEPT !.kind = rec.kind, !.st = "rejected", !.resp = rec.resp, !.err = error]

resolve(rec) ==
  [NewReq EXCEPT !.kind = rec.kind, !.st = "resolved", !.resp = rec.resp]

\* the continuation of a queued promise that was resolved with token
replayQueued(rec, token, s, t) ==
  send([rec EXCEPT !.hdr = Bearer(token), !.enq = 0], s, t)

\* mutant: the trigger is handed its first 401 after the refresh instead of being replayed
replayTrigger_RejectsOriginal(rec, token, s, t) ==
  [NewReq EXCEPT !.kind = rec.kind, !.st = "rejected", !.resp = rec.resp,
                 !.err = [kind |-> "http401", of |-> 0]]

\* the trigger's replay after a successful refresh
replayTrigger(rec, token, s, t) ==
  send([rec EXCEPT !.hdr = Bearer(token)], s, t)

\* mutant: failedQueue.unshift instead of push
push_Front(q, r) == <<r>> \o q

\* failedQueue.push({ resolve, reject })
push(q, r) == Append(q, r)

\* mutant: the forEach resolves every entry, also when an error is passed
RECURSIVE processQueue_ResolvesAll(_, _, _, _, _, _)
processQueue_ResolvesAll(q, error, token, acc, s, t) ==
  IF q = <<>> THEN acc
  ELSE LET r == Head(q)
       IN processQueue_ResolvesAll(Tail(q), error, token,
            [rq |-> [acc.rq EXCEPT ![r] =
                       [@ EXCEPT !.st = "sent", !.hdr = Bearer(token), !.sends = @ + 1,
                                 !.enq = 0]],
             order |-> Append(acc.order, r)], s, t)

\* failedQueue.forEach(prom => error ? prom.reject(error) : prom.resolve(token))
RECURSIVE processQueue(_, _, _, _, _, _)
processQueue(q, error, token, acc, s, t) ==
  IF q = <<>> THEN acc
  ELSE LET r == Head(q)
           rec == acc.rq[r]
           out == IF error # NoErr THEN reject(rec, error)
                  ELSE replayQueued(rec, token, s, t)
       IN processQueue(Tail(q), error, token,
                       [rq |-> [acc.rq EXCEPT ![r] = out],
                        order |-> Append(acc.order, r)], s, t)

\* AuthProvider.handleAuthError (the React state and the router are not modelled)
handleAuthError(s) == clearAuth(s)

\* what the callers' continuations leave behind once the handler has run:
\* logout's finally-block clears the store as soon as its POST is settled
AfterCallers(rq, s) ==
  IF logoutPc = "awaiting" /\ \E r \in Reqs : rq[r].kind = "logout" /\ Settled(rq, r)
  THEN [store |-> handleAuthError(s), logoutPc |-> "done"]
  ELSE [store |-> s, logoutPc |-> logoutPc]

Finish(rq, s) ==
  /\ req' = rq
  /\ store' = AfterCallers(rq, s).store
  /\ logoutPc' = AfterCallers(rq, s).logoutPc

\* ------------------------------------------------------------------ Init
\* localStorage outlives the page: the module is loaded over no session or over
\* the session an earlier login stored (token 1, with or without a refresh token)
PersistedStores ==
  {EmptyStore} \cup [access : {1}, refresh : RefreshTokens \cup {Absent}, user : {1},
                     expiry : {1, 2}]

\* the next request number: requests are numbered as they are made
NextReq(r) == req[r].st = "new" /\ \A q \in Reqs : q < r => req[q].st # "new"

\* ---------------------------------------------------- components at rest
\* the keys callers use: LoginPage's 'login' and another caller's
Keys == {"login", "test-key"}

\* no rate-limiter call made by the step
NoCall == [op |-> "none", key |-> "none", m |-> 0, w |-> 0, blocked |-> FALSE, remaining |-> 0,
           pushed |-> 0, posts |-> 0]

\* LoginPage before it is mounted: useState(false), useState(0), no login call made
NoPage == [mounted |-> FALSE, isBlocked |-> FALSE, remainingTime |-> 0, inFlight |-> FALSE]

\* rateLimiter as the module is loaded: attempts: new Map()
RateLoaded ==
  /\ clock = 0
  /\ attempts = [k \in Keys |-> <<>>]
  /\ recorded = [k \in Keys |-> <<>>]
  /\ call = NoCall
  /\ page = NoPage

\* no monitoring started yet
NoMonitor == [started |-> FALSE, listening |-> FALSE, interval |-> FALSE, stopped |-> FALSE,
              expiryFired |-> FALSE, startedAt |-> 0]

NoProvider == [isAuthenticated |-> FALSE, logoutPending |-> FALSE]

NoneFired == [op |-> "none", checked |-> FALSE, onExpiry |-> FALSE, onWarning |-> FALSE,
              timeLeft |-> 0, again |-> FALSE]

\* the page is loaded: no monitoring yet; localStorage may hold the lastActivity
\* an earlier page load wrote
MonitorLoaded ==
  /\ dateNow = 1
  /\ lastActivity \in {Absent, 1}
  /\ monitor = NoMonitor
  /\ provider = NoProvider
  /\ fired = NoneFired

\* the session monitor while other components run
MonitorAtRest ==
  /\ dateNow = 1
  /\ lastActivity = Absent
  /\ monitor = NoMonitor
  /\ provider = NoProvider
  /\ fired = NoneFired

\* sanitizeInput not called
NotScreened == [checked |-> FALSE, isSecure |-> FALSE, threats |-> {}]

SanitizeAtRest ==
  /\ input = <<>>
  /\ outputs = <<>>
  /\ screened = NotScreened

Init ==
  /\ RateLoaded
  /\ MonitorAtRest
  /\ SanitizeAtRest
  /\ store \in PersistedStores
  /\ now = 1
  /\ isRefreshing = FALSE
  /\ failedQueue = <<>>
  /\ req = [r \in Reqs |-> NewReq]
  /\ refreshCall = {}
  /\ issued = store.access
  /\ refreshedFor = {}
  /\ logoutPc = "idle"
  /\ effects = NoEffects

\* --------------------------------------------------------------- actions
\* the application issues an ordinary protected call
Issue(r) ==
  /\ NextReq(r)
  /\ req' = [req EXCEPT ![r] = send(@, store, now)]
  /\ effects' = NoEffects
  /\ UNCHANGED <<store, now, isRefreshing, failedQueue, refreshCall, issued, refreshedFor,
                 logoutPc>>
  /\ UNCHANGED otherVars

\* AuthProvider.login up to its await
LoginCall(r) ==
  /\ NextReq(r)
  /\ \A q \in Reqs : req[q].kind # "login"
  /\ req' = [req EXCEPT ![r] = send([@ EXCEPT !.kind = "login"], store, now)]
  /\ effects' = NoEffects
  /\ UNCHANGED <<store, now, isRefreshing, failedQueue, refreshCall, issued, refreshedFor,
                 logoutPc>>
  /\ UNCHANGED otherVars

\* AuthProvider.logout up to its await, or all of it when no refresh token is stored
LogoutCall(r) ==
  /\ NextReq(r)
  /\ logoutPc = "idle"
  /\ IF store.refresh # Absent
     THEN /\ req' = [req EXCEPT ![r] = send([@ EXCEPT !.kind = "logout"], store, now)]
          /\ logoutPc' = "awaiting"
          /\ UNCHANGED store
     ELSE /\ store' = handleAuthError(store)
          /\ logoutPc' = "done"
          /\ UNCHANGED req
  /\ effects' = NoEffects
  /\ UNCHANGED <<now, isRefreshing, failedQueue, refreshCall, issued, refreshedFor>>
  /\ UNCHANGED otherVars

\* a 2xx response to an ordinary call or to logout's POST: passed through
Respond200(r) ==
  /\ req[r].st = "sent"
  /\ req[r].kind # "login"
  /\ Finish([req EXCEPT ![r] = resolve([@ EXCEPT !.resp = "2xx"])], store)
  /\ effects' = NoEffects
  /\ UNCHANGED <<now, isRefreshing, failedQueue, refreshCall, issued, refreshedFor>>
  /\ UNCHANGED otherVars

\* a 2xx response to login's POST, and login's continuation on its body
LoginResponse(r) ==
  /\ req[r].st = "sent"
  /\ req[r].kind = "login"
  /\ \E accessToken \in {Absent} \cup ({issued + 1} \cap Tokens),
        refreshToken \in RefreshTokens \cup {Absent},
        userData \in {Absent, 1}, expiresIn \in ExpiresIn :
       LET rq == [req EXCEPT ![r] = resolve([@ EXCEPT !.resp = "2xx"])]
           s1 == setAccessToken(store, accessToken)
           s2 == IF refreshToken # Absent THEN setRefreshToken(s1, refreshToken) ELSE s1
           s3 == setUserData(s2, userData)
           s4 == setSessionExpiry(s3, now + expiresIn)
       IN /\ IF accessToken # Absent /\ userData # Absent
             THEN Finish(rq, s4)
             ELSE Finish(rq, store)
          /\ issued' = IF accessToken # Absent THEN accessToken ELSE issued
  /\ effects' = NoEffects
  /\ UNCHANGED <<now, isRefreshing, failedQueue, refreshCall, refreshedFor>>
  /\ UNCHANGED otherVars

\* a response with an error status other than 401
RespondError(r) ==
  /\ req[r].st = "sent"
  /\ Finish([req EXCEPT ![r] = reject([@ EXCEPT !.resp = "error"], HttpError(r))], store)
  /\ effects' = NoEffects
  /\ UNCHANGED <<now, isRefreshing, failedQueue, refreshCall, issued, refreshedFor>>
  /\ UNCHANGED otherVars

\* no response at all
RespondNetworkError(r) ==
  /\ req[r].st = "sent"
  /\ Finish([req EXCEPT ![r] = reject([@ EXCEPT !.resp = "no response"],
                                      WrappedNetworkError(r))], store)
  /\ effects' = NoEffects
  /\ UNCHANGED <<now, isRefreshing, failedQueue, refreshCall, issued, refreshedFor>>
  /\ UNCHANGED otherVars

\* 401 on a request that carries the retry flag
Respond401Retried(r) ==
  /\ req[r].st = "sent"
  /\ req[r].retry
  /\ Finish([req EXCEPT ![r] = reject([@ EXCEPT !.resp = "401"],
                                      Http401(r))], store)
  /\ effects' = NoEffects
  /\ UNCHANGED <<now, isRefreshing, failedQueue, refreshCall, issued, refreshedFor>>
  /\ UNCHANGED otherVars

\* mutant: a 401 handled while isRefreshing is queued and also posts its own refresh
Respond401Queue_AlsoRefreshes(r) ==
  /\ req[r].st = "sent"
  /\ ~req[r].retry
  /\ isRefreshing
  /\ refreshCall # {}
  /\ failedQueue' = Append(failedQueue, r)
  /\ req' = [req EXCEPT ![r].st = "queued", ![r].resp = "401",
                        ![r].enq = Len(failedQueue) + 1]
  /\ refreshCall' = refreshCall \cup {[trigger |-> r, refreshToken |-> store.refresh]}
  /\ effects' = [NoEffects EXCEPT !.posts = 1]
  /\ UNCHANGED <<store, now, isRefreshing, issued, refreshedFor, logoutPc>>
  /\ UNCHANGED otherVars

\* 401 while isRefreshing: wait in failedQueue
Respond401Queue(r) ==
  /\ req[r].st = "sent"
  /\ ~req[r].retry
  /\ isRefreshing
  /\ failedQueue' = push(failedQueue, r)
  /\ req' = [req EXCEPT ![r].st = "queued", ![r].resp = "401",
                        ![r].enq = Len(failedQueue) + 1]
  /\ effects' = NoEffects
  /\ UNCHANGED <<store, now, isRefreshing, refreshCall, issued, refreshedFor, logoutPc>>
  /\ UNCHANGED otherVars

\* mutant: without the check of the stored refresh token the POST is made with none
Respond401NoRefreshToken_PostsAnyway(r) ==
  /\ req[r].st = "sent"
  /\ ~req[r].retry
  /\ ~isRefreshing
  /\ store.refresh = Absent
  /\ isRefreshing' = TRUE
  /\ req' = [req EXCEPT ![r].retry = TRUE, ![r].st = "waitRefresh", ![r].resp = "401"]
  /\ refreshCall' = refreshCall \cup {[trigger |-> r, refreshToken |-> store.refresh]}
  /\ effects' = [NoEffects EXCEPT !.posts = 1]
  /\ UNCHANGED <<store, now, failedQueue, issued, refreshedFor, logoutPc>>
  /\ UNCHANGED otherVars

\* 401 while idle and no refresh token is stored
Respond401NoRefreshToken(r) ==
  /\ req[r].st = "sent"
  /\ ~req[r].retry
  /\ ~isRefreshing
  /\ store.refresh = Absent
  /\ isRefreshing' = TRUE
  /\ LET error == Http401(r)
         marked == [req EXCEPT ![r].retry = TRUE, ![r].resp = "401"]
         drained == processQueue(failedQueue, error, Absent,
                                 [rq |-> marked, order |-> <<>>], store, now)
     IN Finish([drained.rq EXCEPT ![r] = reject(@, error)], clearAuth(store))
  /\ failedQueue' = <<>>
  /\ effects' = [NoEffects EXCEPT !.redirects = 1]
  /\ UNCHANGED <<now, refreshCall, issued, refreshedFor>>
  /\ UNCHANGED otherVars

\* mutant: the refresh is started without looking at isRefreshing
Respond401Refresh_NoFlagCheck(r) ==
  /\ req[r].st = "sent"
  /\ ~req[r].retry
  /\ store.refresh # Absent
  /\ isRefreshing' = TRUE
  /\ req' = [req EXCEPT ![r].retry = TRUE, ![r].st = "waitRefresh", ![r].resp = "401"]
  /\ refreshCall' = refreshCall \cup {[trigger |-> r, refreshToken |-> store.refresh]}
  /\ refreshedFor' = refreshedFor \cup {t \in Tokens : req[r].hdr = Bearer(t)}
  /\ effects' = [NoEffects EXCEPT !.posts = 1]
  /\ UNCHANGED <<store, now, failedQueue, issued, logoutPc>>
  /\ UNCHANGED otherVars

\* 401 while idle and a refresh token is stored: POST it to the refresh endpoint
Respond401Refresh(r) ==
  /\ req[r].st = "sent"
  /\ ~req[r].retry
  /\ ~isRefreshing
  /\ store.refresh # Absent
  /\ isRefreshing' = TRUE
  /\ req' = [req EXCEPT ![r].retry = TRUE, ![r].st = "waitRefresh", ![r].resp = "401"]
  /\ refreshCall' = refreshCall \cup {[trigger |-> r, refreshToken |-> store.refresh]}
  /\ refreshedFor' = refreshedFor \cup {t \in Tokens : req[r].hdr = Bearer(t)}
  /\ effects' = [NoEffects EXCEPT !.posts = 1]
  /\ UNCHANGED <<store, now, failedQueue, issued, logoutPc>>
  /\ UNCHANGED otherVars

\* the refresh POST returns 2xx with a body; accessToken is Absent when the body has none
RefreshSuccess(c, accessToken) ==
  /\ c \in refreshCall
  /\ \E newRefreshToken \in RefreshTokens \cup {Absent} :
       LET s1 == setAccessToken(store, accessToken)
           s2 == IF newRefreshToken # Absent THEN setRefreshToken(s1, newRefreshToken) ELSE s1
           s3 == setSessionExpiry(s2, now + Hour)
           drained == processQueue(failedQueue, NoErr, accessToken,
                                   [rq |-> req, order |-> <<>>], s3, now)
           rq == [drained.rq EXCEPT ![c.trigger] = replayTrigger(@, accessToken, s3, now)]
       IN /\ Finish(rq, s3)
          /\ issued' = IF accessToken # Absent THEN accessToken ELSE issued
          /\ effects' = [NoEffects EXCEPT !.refresh =
                           [trigger |-> c.trigger, result |-> "ok", token |-> accessToken,
                            queued |-> failedQueue, replayed |-> drained.order]]
  /\ failedQueue' = <<>>
  /\ isRefreshing' = FALSE
  /\ refreshCall' = refreshCall \ {c}
  /\ UNCHANGED <<now, refreshedFor>>
  /\ UNCHANGED otherVars

\* the refresh POST fails: error status, network error or timeout
RefreshFailure(c) ==
  /\ c \in refreshCall
  /\ LET drained == processQueue(failedQueue, RefreshError(c), Absent,
                                 [rq |-> req, order |-> <<>>], store, now)
         rq == [drained.rq EXCEPT ![c.trigger] = reject(@, RefreshError(c))]
     IN Finish(rq, clearAuth(store))
  /\ effects' = [NoEffects EXCEPT !.redirects = 1, !.refresh =
                   [trigger |-> c.trigger, result |-> "failed", token |-> Absent,
                    queued |-> failedQueue, replayed |-> <<>>]]
  /\ failedQueue' = <<>>
  /\ isRefreshing' = FALSE
  /\ refreshCall' = refreshCall \ {c}
  /\ UNCHANGED <<now, issued, refreshedFor>>
  /\ UNCHANGED otherVars

\* time passes
Tick ==
  /\ now < MaxTime
  /\ now' = now + 1
  /\ effects' = NoEffects
  /\ UNCHANGED <<store, isRefreshing, failedQueue, req, refreshCall, issued, refreshedFor,
                 logoutPc>>
  /\ UNCHANGED otherVars

Next ==
  \/ \E r \in Reqs : Issue(r)
  \/ \E r \in Reqs : LoginCall(r)
  \/ \E r \in Reqs : LogoutCall(r)
  \/ \E r \in Reqs : Respond200(r)
  \/ \E r \in Reqs : LoginResponse(r)
  \/ \E r \in Reqs : RespondError(r)
  \/ \E r \in Reqs : RespondNetworkError(r)
  \/ \E r \in Reqs : Respond401Retried(r)
  \/ \E r \in Reqs : Respond401Queue(r)
  \/ \E r \in Reqs : Respond401NoRefreshToken(r)
  \/ \E r \in Reqs : Respond401Refresh(r)
  \/ \E c \in refreshCall : \E t \in {issued + 1} \cap Tokens : RefreshSuccess(c, t)
  \/ \E c \in refreshCall : RefreshSuccess(c, Absent)
  \/ \E c \in refreshCall : RefreshFailure(c)
  \/ Tick

Spec == Init /\ [][Next]_vars

\* the network answers request r
Respond(r) ==
  \/ Respond200(r)
  \/ LoginResponse(r)
  \/ RespondError(r)
  \/ RespondNetworkError(r)
  \/ Respond401Retried(r)
  \/ Respond401Queue(r)
  \/ Respond401NoRefreshToken(r)
  \/ Respond401Refresh(r)

\* every call on the wire is answered or times out (API_CONFIG.TIMEOUT); the
\* application is not obliged to make further calls and the clock is not obliged to tick
FairSpec ==
  /\ Spec
  /\ \A r \in Reqs : WF_vars(Respond(r))
  /\ WF_vars(\E c \in refreshCall : RefreshSuccess(c, Absent) \/ RefreshFailure(c))

\* ------------------------------------------------------- steps and states
Range(q) == {q[i] : i \in DOMAIN q}

\* this step is the response interceptor handling a 401 for request r
Got401(r) == req[r].st = "sent" /\ req'[r] # req[r] /\ req'[r].resp = "401"

\* this step put request r on the wire
Transmitted(r) == req'[r].sends > req[r].sends

\* the requests the refresh call completed by the last step stood for
Covered(done) == {done.trigger} \cup Range(done.queued)

SessionCleared(s) ==
  s.access = Absent /\ s.refresh = Absent /\ s.user = Absent /\ s.expiry = Absent

\* ---------------------------------------------------------------- claims

C2_OneRefreshInFlight ==
  [][/\ Cardinality(refreshCall') <= 1
     /\ \A r \in Reqs : (Got401(r) /\ ~req[r].retry /\ isRefreshing) =>
          /\ failedQueue' = Append(failedQueue, r)
          /\ req'[r].st = "queued"
          /\ effects'.posts = 0
          /\ refreshCall' = refreshCall
    ]_vars

C2_Witness ==
  /\ Cardinality(refreshCall) = 1
  /\ isRefreshing
  /\ \E r \in Reqs : req[r].st = "queued" /\ failedQueue[Len(failedQueue)] = r

\* C3: when a refresh succeeds, the queued requests are resolved with the new token
\* and replayed in the order in which they were enqueued.
C3_FifoReplay ==
  [][effects'.refresh.result = "ok" =>
       LET order == effects'.refresh.replayed IN
       /\ Range(order) = {r \in Reqs : req[r].st = "queued"}
       /\ Len(order) = Cardinality(Range(order))
       /\ \A i, j \in DOMAIN order : i < j => req[order[i]].enq < req[order[j]].enq
       /\ \A i \in DOMAIN order :
            /\ req'[order[i]].st = "sent"
            /\ req'[order[i]].hdr = Bearer(effects'.refresh.token)
    ]_vars

C3_Witness ==
  /\ effects.refresh.result = "ok"
  /\ Len(effects.refresh.replayed) >= 2
  /\ \A i \in DOMAIN effects.refresh.replayed : req[effects.refresh.replayed[i]].st = "sent"

C5_RefreshFailureRejectsAll ==
  [][effects'.refresh.result = "failed" =>
       /\ \A r \in Covered(effects'.refresh) :
            /\ req'[r].st = "rejected"
            /\ req'[r].err = RefreshError(effects'.refresh)
       /\ Range(effects'.refresh.queued) = {r \in Reqs : req[r].st = "queued"}
       /\ \A r \in Reqs : ~Transmitted(r)
       /\ failedQueue' = <<>>
    ]_vars

C5_Witness ==
  /\ effects.refresh.result = "failed"
  /\ Len(effects.refresh.queued) >= 1
  /\ \A r \in Covered(effects.refresh) : req[r].err = RefreshError(effects.refresh)
  /\ failedQueue = <<>>

\* C6: a 401 on a request without the retry flag, handled while isRefreshing is false
\* and no refresh token is stored, makes no refresh POST, rejects the request with
\* its own 401 error, clears the session and signals the redirect to /login.
C6_NoRefreshToken ==
  [][\A r \in Reqs :
       (Got401(r) /\ ~req[r].retry /\ ~isRefreshing /\ store.refresh = Absent) =>
          /\ effects'.posts = 0
          /\ refreshCall' = refreshCall
          /\ req'[r].st = "rejected"
          /\ req'[r].err = Http401(r)
          /\ SessionCleared(store')
          /\ effects'.redirects = 1
    ]_vars

C6_Witness ==
  /\ effects.redirects = 1
  /\ effects.refresh.result = "none"
  /\ refreshCall = {}
  /\ SessionCleared(store)
  /\ \E r \in Reqs : req[r].st = "rejected" /\ req[r].err = Http401(r)

\* C7: every request carries the retry flag before it is replayed, whether it started
\* the refresh or waited in the queue, and no request is put on the wire a third time.
C7_RetryFlagDiscipline ==
  \A r \in Reqs : req[r].sends >= 2 => req[r].retry /\ req[r].sends <= 2

\* C8: a successful refresh settles no caller's promise: the request that started it
\* and every queued request are put on the wire again, so their callers see the
\* outcome of the replay; and a caller is handed the 401 of a first transmission only
\* when no refresh token was stored.
C8_CallerNeverSeesRecovered401 ==
  [][/\ effects'.refresh.result = "ok" =>
          \A r \in Covered(effects'.refresh) :
             /\ req'[r].st = "sent"
             /\ req'[r].sends = req[r].sends + 1
             /\ req'[r].err = NoErr
     /\ \A r \in Reqs :
          (req[r].sends = 1 /\ req'[r].st = "rejected" /\ req'[r].err.kind = "http401") =>
             /\ req[r].st = "sent"
             /\ store.refresh = Absent
    ]_vars

C8_Witness ==
  /\ effects.refresh.result = "ok"
  /\ req[effects.refresh.trigger].st = "sent"
  /\ req[effects.refresh.trigger].sends = 2
  /\ \E r \in Range(effects.refresh.queued) : req[r].sends = 2

\* C9: every transmission, first or replay, carries Authorization: Bearer t exactly
\* when the store holds access token t and the stored session is not expired at send
\* time, and carries no Authorization header otherwise.
C9_HeaderIffValidToken ==
  [][\A r \in Reqs : Transmitted(r) =>
       req'[r].hdr = IF store'.access # Absent /\ ~isSessionExpired(store', now')
                     THEN Bearer(store'.access) ELSE NoHeader
    ]_vars

\* C10: every call of logout eventually clears the client-side auth data.
C10_LogoutEventuallyClears ==
  (logoutPc = "awaiting") ~> (logoutPc = "done" /\ SessionCleared(store))


\* request r has just been answered by no response at all
GotNoResponse(r) == req[r].st = "sent" /\ req'[r] # req[r] /\ req'[r].resp = "no response"

\* C22: a call that gets no response is rejected with the very error the
\* transport produced, and the refresh state, the queue and (for a protected
\* call) the stored credentials are left as they were.
C22_NetworkErrorUnchanged ==
  [][\A r \in Reqs : GotNoResponse(r) =>
       /\ req'[r].st = "rejected"
       /\ req'[r].err = TransportError(r)
       /\ UNCHANGED <<isRefreshing, failedQueue>>
       /\ req[r].kind = "api" => UNCHANGED store]_vars

\* C23: a refresh response with a success status and no accessToken is handled
\* as a refresh failure: the trigger and the queued requests are rejected, none is
\* replayed, the session is cleared (no expiry stored) and the redirect is signalled.
C23_MalformedRefreshIsFailure ==
  [][(effects'.refresh.result = "ok" /\ effects'.refresh.token = Absent) =>
       /\ \A r \in Covered(effects'.refresh) : req'[r].st = "rejected" /\ ~Transmitted(r)
       /\ effects'.refresh.replayed = <<>>
       /\ SessionCleared(store')
       /\ effects'.redirects = 1]_vars

\* C24: the session expiry a successful refresh writes is not earlier than the
\* expiry stored just before it, whether login or an earlier refresh stored that.
C24_ExpiryNeverDecreases ==
  [][(/\ effects'.refresh.result = "ok" /\ effects'.refresh.token # Absent
      /\ store.expiry # Absent /\ store'.expiry # Absent) =>
       store'.expiry >= store.expiry]_vars

\* C26: while isRefreshing is true a refresh call is in flight, and failedQueue
\* is empty whenever isRefreshing is false (every path that sets the flag resets
\* it before its handler finishes).
C26_RefreshingMeansCallInFlight ==
  /\ isRefreshing => refreshCall # {}
  /\ ~isRefreshing => failedQueue = <<>>

\* C27: every request that has received a 401 is eventually settled (resolved
\* or rejected); none stays in failedQueue forever.
C27_Every401EventuallySettled ==
  \A r \in Reqs : (req[r].resp = "401") ~> Settled(req, r)

\* this step is login's continuation on a 2xx response
LoginCompleted == \E r \in Reqs : req[r].kind = "login" /\ req[r].st = "sent" /\ req'[r].st = "resolved"

\* C28: once logout has cleared the session, every step other than the next
\* login leaves access token, refresh token and session expiry absent and sends
\* no request with an Authorization header, a refresh call completing
\* successfully included.
C28_NoStoreWriteAfterLogout ==
  [][(logoutPc = "done" /\ SessionCleared(store) /\ ~LoginCompleted) =>
       /\ store'.access = Absent /\ store'.refresh = Absent /\ store'.expiry = Absent
       /\ \A r \in Reqs : Transmitted(r) => req'[r].hdr = NoHeader]_vars

\* this step is the response interceptor starting a refresh POST for request r
TriggersRefresh(r) == req[r].st = "sent" /\ req'[r].st = "waitRefresh"

\* the refresh POSTs are started by requests not yet marked _retry, one POST per
\* step, the mark stays on until the request is settled and a settled request
\* stays settled: a request starts at most one refresh
C29_OneRefreshPerRequest ==
  [][/\ \A r \in Reqs : TriggersRefresh(r) => ~req[r].retry /\ req'[r].retry
     /\ \A r \in Reqs : req[r].retry => req'[r].retry \/ Settled(req', r)
     /\ \A r \in Reqs : Settled(req, r) => req'[r] = req[r]
     /\ effects'.posts = Cardinality({r \in Reqs : TriggersRefresh(r)})
     /\ Cardinality(refreshCall') <= Cardinality(refreshCall) + effects'.posts]_vars

\* no request is waiting on the coordinator and the coordinator is Idle
Quiescent ==
  /\ ~isRefreshing
  /\ failedQueue = <<>>
  /\ \A r \in Reqs : req[r].st \in {"new", "resolved", "rejected"}

\* C29: no refresh loop: each request starts at most one refresh call, and for
\* the finite set of requests made the coordinator returns to Idle for good
\* with every request settled.
C29_NoRefreshLoop ==
  /\ C29_OneRefreshPerRequest
  /\ <>[]Quiescent

\* ============================================================ rateLimiter
\* utils/validation.js: rateLimiter.attempts maps a key to the list of the
\* timestamps recordAttempt pushed; isBlocked filters the list and stores the
\* result, getRemainingTime reads the list as it is. Each call runs to
\* completion, so one action is one call.

\* the API client while only the rate limiter runs: no session, no request made
AuthAtRest ==
  /\ store = EmptyStore
  /\ now = 1
  /\ isRefreshing = FALSE
  /\ failedQueue = <<>>
  /\ req = [r \in Reqs |-> NewReq]
  /\ refreshCall = {}
  /\ issued = Absent
  /\ refreshedFor = {}
  /\ logoutPc = "idle"
  /\ effects = NoEffects

MaxAttemptsArgs == 1..MaxM
Windows == 1..MaxWindow

MinOf(list) == CHOOSE x \in Range(list) : \A y \in Range(list) : x <= y

MaxOf2(a, b) == IF a >= b THEN a ELSE b

\* attempts.filter(time => now - time < windowMs)
recentAttempts(list, t, windowMs) == SelectSeq(list, LAMBDA time : t - time < windowMs)

\* what isBlocked returns for a key whose list is `list`
isBlocked(list, t, maxAttempts, windowMs) ==
  Len(recentAttempts(list, t, windowMs)) >= maxAttempts

\* mutant: the attempt is pushed under every key
recordAttempt_EveryKey(as, key, t) == [k \in Keys |-> Append(as[k], t)]

\* attempts.push(now); rateLimiter.attempts.set(key, attempts)
recordAttempt(as, key, t) == [as EXCEPT ![key] = Append(@, t)]

\* what getRemainingTime returns for a key whose list is `list`: the list is not filtered
getRemainingTime(list, t, windowMs) ==
  IF Len(list) = 0 THEN 0 ELSE MaxOf2(0, windowMs - (t - MinOf(list)))

\* the history keeps what can still be inside some window
StillInAWindow(h, t) == [k \in Keys |-> recentAttempts(h[k], t, MaxOf2(MaxWindow, DefaultWindowMs))]

\* rateLimiter.recordAttempt(key)
RecordAttempt(key) ==
  /\ Len(recorded[key]) < MaxRecords
  /\ attempts' = recordAttempt(attempts, key, clock)
  /\ recorded' = [recorded EXCEPT ![key] = Append(@, clock)]
  /\ call' = [NoCall EXCEPT !.op = "recordAttempt", !.key = key, !.pushed = 1]
  /\ UNCHANGED <<clock, page, notRateVars>>

\* rateLimiter.isBlocked(key, maxAttempts, windowMs)
IsBlocked(key, maxAttempts, windowMs) ==
  /\ attempts' = [attempts EXCEPT ![key] = recentAttempts(@, clock, windowMs)]
  /\ call' = [NoCall EXCEPT !.op = "isBlocked", !.key = key, !.m = maxAttempts, !.w = windowMs,
                            !.blocked = isBlocked(attempts[key], clock, maxAttempts, windowMs)]
  /\ UNCHANGED <<clock, recorded, page, notRateVars>>

\* rateLimiter.getRemainingTime(key, windowMs)
GetRemainingTime(key, windowMs) ==
  /\ call' = [NoCall EXCEPT !.op = "getRemainingTime", !.key = key, !.w = windowMs,
                            !.remaining = getRemainingTime(attempts[key], clock, windowMs)]
  /\ UNCHANGED <<clock, attempts, recorded, page, notRateVars>>

\* Date.now() advances
RateTick ==
  /\ clock < MaxClock
  /\ clock' = clock + 1
  /\ recorded' = StillInAWindow(recorded, clock + 1)
  /\ call' = NoCall
  /\ UNCHANGED <<attempts, page, notRateVars>>

RateInit == AuthAtRest /\ RateLoaded /\ MonitorAtRest /\ SanitizeAtRest

RateNext ==
  \/ \E key \in Keys : RecordAttempt(key)
  \/ \E key \in Keys, m \in MaxAttemptsArgs, w \in Windows : IsBlocked(key, m, w)
  \/ \E key \in Keys, w \in Windows : GetRemainingTime(key, w)
  \/ RateTick

\* the callers of the exported rateLimiter, with any key, maxAttempts and windowMs
RateSpec == RateInit /\ [][RateNext]_vars

\* the attempts recorded under the key of the last call that are inside its window
InWindow == recentAttempts(recorded[call.key], clock, call.w)

\* C11: isBlocked(key, m, w) returns true when exactly m attempts have been
\* recorded within the window, false when only m-1 have, and false once w has
\* elapsed since the latest recorded attempt.
C11_RateLimiterBoundary ==
  call.op = "isBlocked" =>
    /\ Len(InWindow) = call.m => call.blocked
    /\ Len(InWindow) = call.m - 1 => ~call.blocked
    /\ Len(InWindow) = 0 => ~call.blocked

\* C12: getRemainingTime(key, w) returns max(0, w - (now - t0)) for the oldest
\* attempt t0 recorded under key that is still inside the window, and 0 when
\* there is none, whether or not isBlocked was called before.
C12_RemainingFromOldestInWindow ==
  call.op = "getRemainingTime" =>
    call.remaining = IF Len(InWindow) = 0 THEN 0
                     ELSE MaxOf2(0, call.w - (clock - MinOf(InWindow)))

\* C13: when isBlocked(key, m, w) returns true at time now, the remaining time
\* r of the key is positive, and with no further attempt isBlocked(key, m, w)
\* is true at every time before now + r and false at now + r.
C13_ExactRemainingWait ==
  (call.op = "isBlocked" /\ call.blocked) =>
    LET list == attempts[call.key]
        r == getRemainingTime(list, clock, call.w)
    IN /\ r > 0
       /\ \A d \in 0..r : isBlocked(list, clock + d, call.m, call.w) <=> d < r

\* C30: isBlocked(key, m, w) returns whether at least m of the attempts recorded
\* for the key are younger than w, whatever isBlocked calls were made before.
C30_IsBlockedDependsOnRecorded ==
  call.op = "isBlocked" => (call.blocked <=> Len(InWindow) >= call.m)

\* C14: a call on one key leaves the list of every other key as it was, and
\* what isBlocked and getRemainingTime return is determined by the key's own list.
C14_KeysIndependent ==
  [][/\ \A k \in Keys : k # call'.key => attempts'[k] = attempts[k]
     /\ call'.op = "isBlocked" =>
          call'.blocked = isBlocked(attempts[call'.key], clock, call'.m, call'.w)
     /\ call'.op = "getRemainingTime" =>
          call'.remaining = getRemainingTime(attempts[call'.key], clock, call'.w)]_vars

\* an attempt was just recorded under 'login' while 'test-key' holds other attempts
C14_Witness ==
  /\ call.op = "recordAttempt" /\ call.key = "login"
  /\ attempts["test-key"] # <<>>
  /\ attempts["test-key"] # attempts["login"]

\* ============================================================== LoginPage
\* pages/LoginPage.js: the page calls the rate limiter with the key 'login' and
\* the default maxAttempts and windowMs. A handler runs to completion up to its
\* await, so one action is one handler (or the continuation after the await).

\* the list of 'login' after rateLimiter.isBlocked('login') has filtered it
LoginRecent(as) == recentAttempts(as["login"], clock, DefaultWindowMs)

LoginBlocked(as) == isBlocked(as["login"], clock, DefaultMaxAttempts, DefaultWindowMs)

\* checkRateLimit: setIsBlocked(blocked) and, when blocked, setRemainingTime(remaining)
checkRateLimit(pg, as) ==
  [pg EXCEPT !.isBlocked = LoginBlocked(as),
             !.remainingTime = IF LoginBlocked(as)
                               THEN getRemainingTime(LoginRecent(as), clock, DefaultWindowMs)
                               ELSE @]

LoginCallRecord(op, as) ==
  [NoCall EXCEPT !.op = op, !.key = "login", !.m = DefaultMaxAttempts, !.w = DefaultWindowMs,
                 !.blocked = LoginBlocked(as),
                 !.remaining = getRemainingTime(LoginRecent(as), clock, DefaultWindowMs)]

\* useEffect(() => { checkRateLimit(); }, []) when the page is mounted
Mount ==
  /\ ~page.mounted
  /\ attempts' = [attempts EXCEPT !["login"] = LoginRecent(attempts)]
  /\ page' = [checkRateLimit(page, attempts) EXCEPT !.mounted = TRUE]
  /\ call' = LoginCallRecord("checkRateLimit", attempts)
  /\ UNCHANGED <<clock, recorded, notRateVars>>

\* the setInterval callback that runs while isBlocked && remainingTime > 0
Countdown ==
  /\ page.mounted /\ page.isBlocked /\ page.remainingTime > 0
  /\ LET remaining == getRemainingTime(attempts["login"], clock, DefaultWindowMs)
     IN /\ page' = [page EXCEPT !.remainingTime = remaining,
                                !.isBlocked = IF remaining <= 0 THEN FALSE ELSE @]
        /\ call' = [NoCall EXCEPT !.op = "getRemainingTime", !.key = "login",
                                  !.w = DefaultWindowMs, !.remaining = remaining]
  /\ UNCHANGED <<clock, attempts, recorded, notRateVars>>

\* mutant: the attempt is recorded before the rate limit is looked at
HandleSubmit_RecordsFirst ==
  /\ page.mounted /\ ~page.inFlight
  /\ attempts' = recordAttempt([attempts EXCEPT !["login"] = LoginRecent(attempts)], "login", clock)
  /\ recorded' = [recorded EXCEPT !["login"] = Append(@, clock)]
  /\ page' = IF LoginBlocked(attempts) THEN checkRateLimit(page, attempts)
             ELSE [page EXCEPT !.inFlight = TRUE]
  /\ call' = [LoginCallRecord("handleSubmit", attempts) EXCEPT
                !.pushed = 1, !.posts = IF LoginBlocked(attempts) THEN 0 ELSE 1]
  /\ UNCHANGED <<clock, notRateVars>>

\* handleSubmit up to its await: blocked, it calls checkRateLimit and returns;
\* otherwise it records the attempt and calls login, which posts the credentials
HandleSubmit ==
  /\ page.mounted /\ ~page.inFlight
  /\ IF LoginBlocked(attempts)
     THEN /\ attempts' = [attempts EXCEPT !["login"] = LoginRecent(attempts)]
          /\ page' = checkRateLimit(page, attempts)
          /\ call' = LoginCallRecord("handleSubmit", attempts)
          /\ UNCHANGED recorded
     ELSE /\ attempts' = recordAttempt([attempts EXCEPT !["login"] = LoginRecent(attempts)],
                                       "login", clock)
          /\ recorded' = [recorded EXCEPT !["login"] = Append(@, clock)]
          /\ page' = [page EXCEPT !.inFlight = TRUE]
          /\ call' = [LoginCallRecord("handleSubmit", attempts) EXCEPT !.pushed = 1, !.posts = 1]
  /\ UNCHANGED <<clock, notRateVars>>

\* login rejects: the catch block of handleSubmit calls checkRateLimit
LoginFails ==
  /\ page.inFlight
  /\ attempts' = [attempts EXCEPT !["login"] = LoginRecent(attempts)]
  /\ page' = [checkRateLimit(page, attempts) EXCEPT !.inFlight = FALSE]
  /\ call' = LoginCallRecord("checkRateLimit", attempts)
  /\ UNCHANGED <<clock, recorded, notRateVars>>

\* login resolves: it has navigated to /dashboard, the page is unmounted
LoginSucceeds ==
  /\ page.inFlight
  /\ page' = NoPage
  /\ call' = NoCall
  /\ UNCHANGED <<clock, attempts, recorded, notRateVars>>

LoginNext ==
  \/ Mount
  \/ Countdown
  \/ HandleSubmit
  \/ LoginFails
  \/ LoginSucceeds
  \/ RateTick

\* LoginPage as the only caller of the rate limiter
LoginSpec == RateInit /\ [][LoginNext]_vars

\* C15: a handleSubmit that runs while 'login' is blocked makes no login call
\* and records no attempt, and a handleSubmit that makes the login call has
\* recorded an attempt under 'login' first.
C15_FailFastLogin ==
  [][call'.op = "handleSubmit" =>
       /\ isBlocked(recorded["login"], clock, DefaultMaxAttempts, DefaultWindowMs) =>
            /\ call'.posts = 0 /\ page'.inFlight = page.inFlight
            /\ call'.pushed = 0 /\ recorded' = recorded
            /\ Len(attempts'["login"]) <= Len(attempts["login"])
       /\ call'.posts = 1 =>
            /\ call'.pushed = 1
            /\ recorded'["login"] = Append(recorded["login"], clock)
            /\ attempts'["login"] = Append(LoginRecent(attempts), clock)]_vars

\* handleSubmit has just run while 'login' held five attempts inside the window
C15_Witness ==
  /\ call.op = "handleSubmit" /\ call.blocked /\ call.posts = 0
  /\ Len(attempts["login"]) = DefaultMaxAttempts
  /\ ~page.inFlight

\* ========================================================= sessionManager
\* utils/security.js: sessionManager keeps the time of the last interaction in
\* localStorage; initSessionMonitoring registers the listeners and an interval
\* of 30 seconds that runs checkSession, and returns the function that removes
\* both. SecurityProvider starts it when the user is authenticated and passes
\* handleSessionExpiry, which schedules logout. The clock counts units of 5
\* minutes, so several periodic checks run at one clock value.

\* mutant: expired from maxIdle on
sessionIsExpired_AtMaxIdle(la, t) ==
  IF la = Absent THEN TRUE ELSE t - la >= MaxIdleTime

\* sessionManager.isSessionExpired
sessionIsExpired(la, t) ==
  IF la = Absent THEN TRUE ELSE t - la > MaxIdleTime

\* sessionManager.getTimeUntilExpiry
getTimeUntilExpiry(la, t) ==
  IF la = Absent THEN 0 ELSE MaxOf2(0, MaxIdleTime - (t - la))

\* mutant: checkSession goes on to the warning after onExpiry
checkSession_NoReturn(la, t) ==
  [NoneFired EXCEPT !.op = "timer", !.checked = TRUE,
                    !.onExpiry = sessionIsExpired(la, t),
                    !.onWarning = getTimeUntilExpiry(la, t) <= TimeoutWarning,
                    !.timeLeft = getTimeUntilExpiry(la, t)]

\* checkSession: the callbacks it invokes, and the argument of onWarning
checkSession(la, t) ==
  IF sessionIsExpired(la, t)
  THEN [NoneFired EXCEPT !.op = "timer", !.checked = TRUE, !.onExpiry = TRUE]
  ELSE [NoneFired EXCEPT !.op = "timer", !.checked = TRUE,
                         !.onWarning = getTimeUntilExpiry(la, t) <= TimeoutWarning,
                         !.timeLeft = IF getTimeUntilExpiry(la, t) <= TimeoutWarning
                                      THEN getTimeUntilExpiry(la, t) ELSE 0]

\* mutant: the returned function only clears the interval
stopMonitoring_KeepsListeners(mon) ==
  [mon EXCEPT !.interval = FALSE, !.stopped = TRUE]

\* the function initSessionMonitoring returns: removeEventListener for every
\* event, clearInterval
stopMonitoring(mon) ==
  [mon EXCEPT !.listening = FALSE, !.interval = FALSE, !.stopped = TRUE]

\* SecurityProvider's effect with isAuthenticated true: initSessionMonitoring
StartMonitoring ==
  /\ ~monitor.listening /\ ~monitor.interval
  /\ monitor' = [NoMonitor EXCEPT !.started = TRUE, !.listening = TRUE, !.interval = TRUE,
                                  !.startedAt = dateNow]
  /\ provider' = [provider EXCEPT !.isAuthenticated = TRUE]
  /\ fired' = [NoneFired EXCEPT !.op = "start"]
  /\ UNCHANGED <<dateNow, lastActivity, notMonitorVars>>

\* the user interacts with the document: updateActivity runs if it is registered
Interaction ==
  /\ lastActivity' = IF monitor.listening THEN dateNow ELSE lastActivity
  /\ fired' = [NoneFired EXCEPT !.op = "event"]
  /\ UNCHANGED <<dateNow, monitor, provider, notMonitorVars>>

\* 30 seconds have passed: checkSession runs if the interval is set; onExpiry is
\* handleSessionExpiry, which schedules logout
TimerDue ==
  /\ monitor.started
  /\ fired' = IF monitor.interval THEN checkSession(lastActivity, dateNow)
              ELSE [NoneFired EXCEPT !.op = "timer"]
  /\ monitor' = [monitor EXCEPT !.expiryFired = @ \/ fired'.onExpiry]
  /\ provider' = [provider EXCEPT !.logoutPending = @ \/ fired'.onExpiry]
  /\ UNCHANGED <<dateNow, lastActivity, notMonitorVars>>

\* the cleanup function is called (the provider is unmounted), the first time or again
StopMonitoring ==
  /\ monitor.started
  /\ monitor' = stopMonitoring(monitor)
  /\ fired' = [NoneFired EXCEPT !.op = "stop", !.again = monitor.stopped]
  /\ UNCHANGED <<dateNow, lastActivity, provider, notMonitorVars>>

\* the scheduled logout has cleared the user: isAuthenticated turns false and
\* React runs the effect's cleanup
LogoutSettles ==
  /\ provider.logoutPending
  /\ provider' = NoProvider
  /\ monitor' = stopMonitoring(monitor)
  /\ fired' = [NoneFired EXCEPT !.op = "logout"]
  /\ UNCHANGED <<dateNow, lastActivity, notMonitorVars>>

\* Date.now() advances
MonitorTick ==
  /\ dateNow < MaxDate
  /\ dateNow' = dateNow + 1
  /\ fired' = NoneFired
  /\ UNCHANGED <<lastActivity, monitor, provider, notMonitorVars>>

MonitorInit == AuthAtRest /\ RateLoaded /\ MonitorLoaded /\ SanitizeAtRest

MonitorNext ==
  \/ StartMonitoring
  \/ Interaction
  \/ TimerDue
  \/ StopMonitoring
  \/ LogoutSettles
  \/ MonitorTick

MonitorSpec == MonitorInit /\ [][MonitorNext]_vars

\* C16: a periodic check made with idle = now - lastActivity invokes onExpiry
\* exactly when idle > maxIdle: at maxIdle + 1 it does, at maxIdle it does not.
C16_IdleExpiryBoundary ==
  (fired.checked /\ lastActivity # Absent) =>
    (fired.onExpiry <=> dateNow - lastActivity > MaxIdleTime)

\* a check with idle = maxIdle + 1 has invoked onExpiry
C16_Witness ==
  /\ fired.checked /\ fired.onExpiry
  /\ lastActivity # Absent /\ dateNow - lastActivity = MaxIdleTime + 1

\* C17: once a periodic check has invoked onExpiry, no later periodic check of
\* the same monitoring invokes onExpiry or onWarning.
C17_ExpiryAtMostOnce ==
  [][(monitor.expiryFired /\ fired'.checked) => (~fired'.onExpiry /\ ~fired'.onWarning)]_vars

\* C18: a periodic check that finds the session not expired and remaining =
\* maxIdle - idle at or below the warning threshold invokes onWarning(remaining)
\* and not onExpiry; with remaining above the threshold it invokes neither; no
\* check invokes both.
C18_WarningThreshold ==
  fired.checked =>
    /\ ~(fired.onExpiry /\ fired.onWarning)
    /\ (lastActivity # Absent /\ dateNow - lastActivity <= MaxIdleTime) =>
         LET remaining == MaxIdleTime - (dateNow - lastActivity)
         IN /\ ~fired.onExpiry
            /\ fired.onWarning <=> remaining <= TimeoutWarning
            /\ fired.onWarning => fired.timeLeft = remaining

\* a check at exactly the threshold has invoked onWarning
C18_Witness ==
  /\ fired.checked /\ fired.onWarning /\ ~fired.onExpiry
  /\ lastActivity # Absent /\ MaxIdleTime - (dateNow - lastActivity) = TimeoutWarning

\* C19: after the stop function was called no periodic check runs, no callback
\* fires and an interaction does not update lastActivity; a second call of the
\* stop function changes nothing.
C19_StopStops ==
  [][monitor.stopped =>
       /\ fired'.op = "timer" => (~fired'.checked /\ ~fired'.onExpiry /\ ~fired'.onWarning)
       /\ fired'.op = "event" => lastActivity' = lastActivity
       /\ fired'.op = "stop" => UNCHANGED <<monitor, lastActivity, provider, dateNow>>]_vars

\* the stop function has just been called a second time
C19_Witness ==
  /\ fired.op = "stop" /\ fired.again
  /\ monitor.stopped /\ ~monitor.listening /\ ~monitor.interval

\* C25: the activity record is created when monitoring starts, so a periodic
\* check never invokes onExpiry before maxIdle has passed since the start of the
\* monitoring, whatever lastActivity an earlier monitoring or page load left.
C25_ActivityRecordLifecycle ==
  (fired.checked /\ fired.onExpiry) => dateNow >= monitor.startedAt + MaxIdleTime

\* ========================================================== sanitizeInput
\* utils/security.js: security.sanitizeInput replaces each of < > ' " & by its
\* entity and trims the result. A string is the sequence of its characters.

\* the characters of the inputs: two of the replaced ones, the letters and the
\* semicolon of an entity name, a space and another letter
Chars == {"<", "&", "l", "t", ";", " ", "a"}

Strings == UNION {[1..n -> Chars] : n \in 0..MaxLen}

\* the entities table of the replace callback
entities(char) ==
  CASE char = "<" -> <<"&", "l", "t", ";">>
    [] char = ">" -> <<"&", "g", "t", ";">>
    [] char = "\"" -> <<"&", "q", "u", "o", "t", ";">>
    [] char = "'" -> <<"&", "#", "x", "2", "7", ";">>
    [] char = "&" -> <<"&", "a", "m", "p", ";">>

\* input.replace(/[<>'"&]/g, (char) => entities[char])
RECURSIVE replaceAll(_)
replaceAll(s) ==
  IF s = <<>> THEN <<>>
  ELSE (IF Head(s) \in {"<", ">", "\"", "'", "&"} THEN entities(Head(s)) ELSE <<Head(s)>>)
       \o replaceAll(Tail(s))

\* String.prototype.trim
RECURSIVE trim(_)
trim(s) ==
  IF s = <<>> THEN <<>>
  ELSE IF Head(s) = " " THEN trim(Tail(s))
  ELSE IF s[Len(s)] = " " THEN trim(SubSeq(s, 1, Len(s) - 1))
  ELSE s

\* security.sanitizeInput for a string
sanitizeInput(s) == trim(replaceAll(s))

\* the string holds an entity: an ampersand, a name of letters, digits and #, a semicolon
ContainsEntity(s) ==
  \E i, j \in 1..Len(s) :
    /\ i + 1 < j
    /\ s[i] = "&" /\ s[j] = ";"
    /\ \A k \in (i + 1)..(j - 1) : s[k] \notin {"<", ">", "\"", "'", "&", ";", " "}

\* sanitizeInput is applied to the input, then to what it returned
Sanitize ==
  /\ Len(outputs) < MaxSanitize
  /\ outputs' = Append(outputs, sanitizeInput(IF outputs = <<>> THEN input
                                              ELSE outputs[Len(outputs)]))
  /\ UNCHANGED <<input, screened, notSanitizeVars>>

SanitizeInit ==
  /\ AuthAtRest /\ RateLoaded /\ MonitorAtRest
  /\ input \in Strings
  /\ outputs = <<>>
  /\ screened = NotScreened

SanitizeNext == Sanitize

SanitizeSpec == SanitizeInit /\ [][SanitizeNext]_vars

\* C20: for an input that holds no entity, sanitizeInput applied to the
\* sanitized string returns the sanitized string.
C20_IdempotentSanitize ==
  (Len(outputs) >= 2 /\ ~ContainsEntity(input)) => outputs[2] = outputs[1]

\* ========================================================== threat screen
\* utils/validation.js: security.hasSQLInjection, hasXSS, hasPathTraversal and
\* isSecure; utils/security.js: security.detectThreats, which tests the same
\* patterns and the shell metacharacters. The patterns that ignore case are
\* matched against lower-case characters.

\* the characters of the screened inputs: the letters of a keyword and of an
\* event-handler attribute, and the punctuation the detectors look for
ThreatChars == {"e", "x", "c", "o", "n", ";", "&", ".", "/", "=", "-"}

ThreatStrings == UNION {[1..n -> ThreatChars] : n \in 0..MaxLen}

\* sub occurs in s at position i
OccursAt(s, i, sub) ==
  /\ i >= 1 /\ i + Len(sub) - 1 <= Len(s)
  /\ \A k \in 1..Len(sub) : s[i + k - 1] = sub[k]

\* s.includes(sub), the test of a pattern that is a literal
Contains(s, sub) == \E i \in 1..Len(s) : OccursAt(s, i, sub)

\* \w
IsWordChar(c) ==
  c \in {"a", "b", "c", "d", "e", "f", "g", "h", "i", "j", "k", "l", "m", "n", "o", "p", "q",
         "r", "s", "t", "u", "v", "w", "x", "y", "z", "0", "1", "2", "3", "4", "5", "6", "7",
         "8", "9", "_"}

SqlKeywords ==
  { <<"s", "e", "l", "e", "c", "t">>, <<"i", "n", "s", "e", "r", "t">>,
    <<"u", "p", "d", "a", "t", "e">>, <<"d", "e", "l", "e", "t", "e">>,
    <<"d", "r", "o", "p">>, <<"c", "r", "e", "a", "t", "e">>, <<"a", "l", "t", "e", "r">>,
    <<"e", "x", "e", "c">>, <<"u", "n", "i", "o", "n">> }

\* /(\b(SELECT|INSERT|UPDATE|DELETE|DROP|CREATE|ALTER|EXEC|UNION)\b)/i
MatchesSqlKeyword(s) ==
  \E w \in SqlKeywords : \E i \in 1..Len(s) :
    /\ OccursAt(s, i, w)
    /\ i = 1 \/ ~IsWordChar(s[i - 1])
    /\ i + Len(w) - 1 = Len(s) \/ ~IsWordChar(s[i + Len(w)])

\* security.hasSQLInjection
hasSQLInjection(s) ==
  IF s = <<>> THEN FALSE
  ELSE \/ MatchesSqlKeyword(s)
       \/ Contains(s, <<"-", "-">>) \/ Contains(s, <<"*", "/">>) \/ Contains(s, <<"/", "*">>)
       \/ \E i \in 1..Len(s) : s[i] \in {"'", "\"", ";", "\\x00", "\\x1a"}

\* /<script[^>]*>.*?<\/script>/gi
MatchesScriptTag(s) ==
  \E i, k, j \in 1..Len(s) :
    /\ OccursAt(s, i, <<"<", "s", "c", "r", "i", "p", "t">>)
    /\ k >= i + 7 /\ s[k] = ">" /\ \A n \in (i + 7)..(k - 1) : s[n] # ">"
    /\ j > k /\ OccursAt(s, j, <<"<", "/", "s", "c", "r", "i", "p", "t", ">">>)

\* /on\w+\s*=/gi
MatchesEventHandler(s) ==
  \E i, k, j \in 1..Len(s) :
    /\ OccursAt(s, i, <<"o", "n">>)
    /\ k >= i + 2 /\ \A n \in (i + 2)..k : IsWordChar(s[n])
    /\ j > k /\ s[j] = "=" /\ \A n \in (k + 1)..(j - 1) : s[n] = " "

\* security.hasXSS
hasXSS(s) ==
  IF s = <<>> THEN FALSE
  ELSE \/ MatchesScriptTag(s)
       \/ Contains(s, <<"j", "a", "v", "a", "s", "c", "r", "i", "p", "t", ":">>)
       \/ MatchesEventHandler(s)
       \/ Contains(s, <<"<", "i", "f", "r", "a", "m", "e">>)
       \/ Contains(s, <<"<", "o", "b", "j", "e", "c", "t">>)
       \/ Contains(s, <<"<", "e", "m", "b", "e", "d">>)

\* security.hasPathTraversal
hasPathTraversal(s) ==
  IF s = <<>> THEN FALSE
  ELSE Contains(s, <<".", ".", "/">>) \/ Contains(s, <<".", ".", "\\">>)

\* /[;&|`$(){}[\]\\]/
hasShellMetacharacter(s) ==
  \E i \in 1..Len(s) : s[i] \in {";", "&", "|", "backquote", "$", "(", ")", "{", "}", "[", "]", "\\"}

\* security.isSecure
isSecure(s) == ~hasSQLInjection(s) /\ ~hasXSS(s) /\ ~hasPathTraversal(s)

\* security.detectThreats
detectThreats(s) ==
  (IF hasSQLInjection(s) THEN {"SQL_INJECTION"} ELSE {})
  \cup (IF hasXSS(s) THEN {"XSS"} ELSE {})
  \cup (IF hasPathTraversal(s) THEN {"PATH_TRAVERSAL"} ELSE {})
  \cup (IF hasShellMetacharacter(s) THEN {"COMMAND_INJECTION"} ELSE {})

\* the input is screened: isSecure and detectThreats are called on it
Screen ==
  /\ ~screened.checked
  /\ screened' = [checked |-> TRUE, isSecure |-> isSecure(input), threats |-> detectThreats(input)]
  /\ UNCHANGED <<input, outputs, notSanitizeVars>>

ThreatInit ==
  /\ AuthAtRest /\ RateLoaded /\ MonitorAtRest
  /\ input \in ThreatStrings
  /\ outputs = <<>>
  /\ screened = NotScreened

ThreatNext == Screen

ThreatSpec == ThreatInit /\ [][ThreatNext]_vars

\* C21: isSecure(s) is true exactly when none of the four detectors (SQL
\* injection, XSS, path traversal, command injection) fires on s.
C21_SecureIffNoDetectorFires ==
  screened.checked => (screened.isSecure <=> screened.threats = {})

====
